---- MODULE Spec2Model ----
(***************************************************************************)
(* Category stores of mobile-accenture-categories.                         *)
(*                                                                         *)
(*   CategoryService          src/src/app/core/services/category.service.ts *)
(*   FirebaseCategoryService  src/unnamed/part_000                          *)
(*                                                                         *)
(* The two services are alternative backends; a behaviour of the model     *)
(* runs exactly one of them, chosen at construction (backend).             *)
(*                                                                         *)
(* Dates are integers (milliseconds of the client clock `now`, or of the   *)
(* server clock `serverNow` for Firestore server timestamps).  The client  *)
(* clock never runs backwards.                                             *)
(***************************************************************************)
EXTENDS Integers, Sequences, FiniteSets, TLC

VARIABLES
    backend,            \* "local": CategoryService, "remote": FirebaseCategoryService
    now,                \* client clock: Date.now() / new Date()
    storage,            \* localStorage value under STORAGE_KEY
    categoriesSignal,   \* CategoryService.categoriesSignal
    serverNow,          \* Firestore server clock (serverTimestamp())
    docs,               \* the 'categories' collection as the server holds it
    pending,            \* this client's writes awaiting acknowledgment, oldest first
    subscription,       \* state of the collectionData subscription
    fbCategoriesSignal, \* FirebaseCategoryService.categoriesSignal
    categoryCountMemo,  \* CategoryService.categoryCount: the value computed() holds
    categoryStatsMemo,  \* CategoryService.categoryStats: the value computed() holds
    fbCategoryCountMemo,    \* FirebaseCategoryService.categoryCount, likewise
    fbCategoryStatsMemo,    \* FirebaseCategoryService.categoryStats, likewise
    lastOp              \* the operation that produced this state, with its outcome

vars == <<backend, now, storage, categoriesSignal, serverNow, docs, pending,
          subscription, fbCategoriesSignal, categoryCountMemo, categoryStatsMemo,
          fbCategoryCountMemo, fbCategoryStatsMemo, lastOp>>

localComputed == <<categoryCountMemo, categoryStatsMemo>>
remoteComputed == <<fbCategoryCountMemo, fbCategoryStatsMemo>>

localVars == <<storage, categoriesSignal, localComputed>>
remoteVars == <<serverNow, docs, pending, subscription, fbCategoriesSignal,
                remoteComputed>>

(***************************************************************************)
(* Bounds                                                                  *)
(***************************************************************************)
MaxClock == 2       \* the clocks stop advancing at this reading
MaxCats == 2        \* createCategory is not called beyond this many records
MaxPending == 2     \* remote calls are not made beyond this many writes in flight

(***************************************************************************)
(* Values                                                                  *)
(***************************************************************************)
Null == [null |-> TRUE]

STORAGE_KEY == "categories"

\* Math.random().toString(36).substr(2, 9): two of the possible suffixes
Suffixes == {"k3x9q2m1a", "z8w0p4r7b"}

CreateDtos ==
    { [name |-> "Work", color |-> "#fff", backgroundColor |-> "#000", icon |-> "briefcase"],
      [name |-> "Home", color |-> "#0f0", backgroundColor |-> "#333", icon |-> "home"] }

\* UpdateCategoryDto: any subset of the four fields
UpdateDtos ==
    { [name |-> "Job"] }

\* inputs of the remote store's calls
fbCreateDtos ==
    { [name |-> "Work", color |-> "#fff", backgroundColor |-> "#000", icon |-> "briefcase"] }

fbUpdateDtos == { [name |-> "Job"] }

DtoFields == {"name", "color", "backgroundColor", "icon"}

UnknownId == [ts |-> 0 - 1, rnd |-> "unknown"]

(***************************************************************************)
(* CategoryService (local store): pure parts                               *)
(***************************************************************************)

\* this.categories().find(c => c.id === id); undefined is Null
getCategoryById(cats, id) ==
    IF \E i \in 1..Len(cats) : cats[i].id = id
    THEN cats[CHOOSE i \in 1..Len(cats) :
                  /\ cats[i].id = id
                  /\ \A j \in 1..(i - 1) : cats[j].id # id]
    ELSE Null

\* A plausible slip: report "not found" as the last position instead of -1
findIndexLast(cats, id) ==
    IF \E i \in 1..Len(cats) : cats[i].id = id
    THEN (CHOOSE i \in 1..Len(cats) :
              /\ cats[i].id = id
              /\ \A j \in 1..(i - 1) : cats[j].id # id) - 1
    ELSE Len(cats) - 1

\* currentCategories.findIndex(c => c.id === id): 0-based, -1 when absent
findIndex(cats, id) ==
    IF \E i \in 1..Len(cats) : cats[i].id = id
    THEN (CHOOSE i \in 1..Len(cats) :
              /\ cats[i].id = id
              /\ \A j \in 1..(i - 1) : cats[j].id # id) - 1
    ELSE -1

\* currentCategories.filter(c => c.id !== id)
filterOut(cats, id) == SelectSeq(cats, LAMBDA c : c.id # id)

\* `${Date.now()}-${Math.random().toString(36).substr(2, 9)}`
generateId(ts, rnd) == [ts |-> ts, rnd |-> rnd]

\* the object literal of createCategory
NewCategory(id, dto, created, updated) ==
    [id |-> id, name |-> dto.name, color |-> dto.color,
     backgroundColor |-> dto.backgroundColor, icon |-> dto.icon,
     createdAt |-> created, updatedAt |-> updated]

\* A plausible slip: spread the DTO first, so the stored record wins
MergeExistingWins(category, dto, t) ==
    [f \in DOMAIN category \cup DOMAIN dto \cup {"updatedAt"} |->
        IF f = "updatedAt" THEN t
        ELSE IF f \in DOMAIN category THEN category[f] ELSE dto[f]]

\* A plausible slip: restart updatedAt from the record's createdAt
MergeResetsUpdated(category, dto, t) ==
    [f \in DOMAIN category \cup DOMAIN dto \cup {"updatedAt"} |->
        IF f = "updatedAt" THEN category.createdAt
        ELSE IF f \in DOMAIN dto THEN dto[f] ELSE category[f]]

\* { ...category, ...updateCategoryDto, updatedAt: new Date() }
Merge(category, dto, t) ==
    [f \in DOMAIN category \cup DOMAIN dto \cup {"updatedAt"} |->
        IF f = "updatedAt" THEN t
        ELSE IF f \in DOMAIN dto THEN dto[f] ELSE category[f]]

\* [...slice(0, categoryIndex), updatedCategory, ...slice(categoryIndex + 1)]
ReplaceAt(cats, categoryIndex, updatedCategory) ==
    SubSeq(cats, 1, categoryIndex) \o <<updatedCategory>>
        \o SubSeq(cats, categoryIndex + 2, Len(cats))

\* new Date(undefined): the Invalid Date (its time value is NaN), and
\* new Date(null): the epoch
InvalidDate == 0 - 1

EpochDate == 0

\* Date.prototype.toJSON: the ISO-8601 text of a Date, null for the Invalid Date
DateToJSON(d) == IF d = InvalidDate THEN Null ELSE [iso |-> d]

\* new Date(text) of an ISO-8601 text, or of null
DateFromJSON(text) == IF text = Null THEN EpochDate ELSE text.iso

\* JSON.stringify(categories): the text stored under STORAGE_KEY
JSONstringify(cats) ==
    [kind |-> "array",
     items |-> [i \in 1..Len(cats) |->
                  [cats[i] EXCEPT !.createdAt = DateToJSON(@),
                                  !.updatedAt = DateToJSON(@)]]]

StorageAbsent == [kind |-> "absent"]       \* getItem returns null
StorageInvalid == [kind |-> "invalid"]     \* text JSON.parse rejects
StorageNonArray == [kind |-> "nonarray"]   \* JSON text of a value without .map

\* an array item that is a JSON number
JSONNumber == [number |-> TRUE]

\* '[1]' and '[null]': JSON arrays whose items are not records
StorageArrayOfNumber == [kind |-> "array", items |-> <<JSONNumber>>]
StorageArrayOfNull == [kind |-> "array", items |-> <<Null>>]

\* ({ ...category, createdAt: new Date(category.createdAt), updatedAt: new
\* Date(category.updatedAt) }): a number spreads to no property, and a property
\* it lacks reads as undefined
LoadItem(category) ==
    IF category = JSONNumber
    THEN [id |-> Null, name |-> Null, color |-> Null, backgroundColor |-> Null,
          icon |-> Null, createdAt |-> InvalidDate, updatedAt |-> InvalidDate]
    ELSE [category EXCEPT !.createdAt = DateFromJSON(@),
                          !.updatedAt = DateFromJSON(@)]

\* loadCategories: the value of categoriesSignal after the constructor; reading
\* a property of a null item throws, and the catch sets the empty collection
loadCategories(stored) ==
    IF stored.kind = "absent" THEN <<>>
    ELSE IF stored.kind = "array"
    THEN IF \E i \in 1..Len(stored.items) : stored.items[i] = Null
         THEN <<>>
         ELSE [i \in 1..Len(stored.items) |-> LoadItem(stored.items[i])]
    ELSE <<>>

\* A plausible slip: set the signal before the write, so a throwing setItem
\* leaves the new collection in memory
updateCategoriesSetsFirst(categories, current, stored, setItemThrows) ==
    IF setItemThrows
    THEN [categoriesSignal |-> categories, storage |-> stored, raised |-> FALSE,
          set |-> TRUE]
    ELSE [categoriesSignal |-> categories, storage |-> JSONstringify(categories),
          raised |-> FALSE, set |-> TRUE]

\* A plausible slip: serialize this.categories(), the collection before the change
updateCategoriesStoresCurrent(categories, current, stored, setItemThrows) ==
    IF setItemThrows
    THEN [categoriesSignal |-> current, storage |-> stored, raised |-> FALSE,
          set |-> FALSE]
    ELSE [categoriesSignal |-> categories, storage |-> JSONstringify(current),
          raised |-> FALSE, set |-> TRUE]

\* updateCategories: setItem, then categoriesSignal.set; a throwing setItem
\* is caught and logged.  set tells whether categoriesSignal.set was reached
updateCategories(categories, current, stored, setItemThrows) ==
    IF setItemThrows
    THEN [categoriesSignal |-> current, storage |-> stored, raised |-> FALSE,
          set |-> FALSE]
    ELSE [categoriesSignal |-> categories, storage |-> JSONstringify(categories),
          raised |-> FALSE, set |-> TRUE]

\* A computed() signal is lazy and memoised: a read returns the value it holds
\* unless a signal it read has been set since, and only then runs its function
\* again.  A memo is Null while the computed holds no value that is still good.
Held(value) == [value |-> value]

\* A plausible slip: a signal created with { equal: () => true }, whose set
\* never tells its readers
computedAfterSetKept(memo) == memo

\* categoriesSignal.set(array), always a new array: what a computed that read
\* the signal holds is no longer good
computedAfterSet(memo) == Null

\* what computed(() => this.categories().length) returns when read
computedCount(memo, categories) ==
    IF memo = Null THEN Len(categories) ELSE memo.value

\* what computed(() => ({ total: this.categoryCount(), withTasks: 0,
\* empty: this.categoryCount() })) returns when read, count being what
\* categoryCount() returns
computedStats(memo, count) ==
    IF memo = Null THEN [total |-> count, withTasks |-> 0, empty |-> count]
    ELSE memo.value

\* this.categoryCount(), read in the current state
categoryCount == computedCount(categoryCountMemo, categoriesSignal)

\* this.categoryStats(), read in the current state
categoryStats == computedStats(categoryStatsMemo, categoryCount)

(***************************************************************************)
(* CategoryService (local store): operations                               *)
(***************************************************************************)

\* the computed signals after a call that did, or did not, reach
\* categoriesSignal.set
signalSet(reached) ==
    /\ categoryCountMemo' =
           IF reached THEN computedAfterSet(categoryCountMemo) ELSE categoryCountMemo
    /\ categoryStatsMemo' =
           IF reached THEN computedAfterSet(categoryStatsMemo) ELSE categoryStatsMemo

\* Clock readings taken during one call: the clock may advance between them
Readings == now..(IF now < MaxClock THEN now + 1 ELSE now)

\* wrote: the call reached the backing store's write; writeFailed: that write
\* threw or was rejected; raised: the call ended by throwing to its caller
Op(name, id, dto, returned, wrote, writeFailed, raised) ==
    [op |-> name, id |-> id, dto |-> dto, returned |-> returned, wrote |-> wrote,
     writeFailed |-> writeFailed, raised |-> raised]

\* Time passes between two calls
Tick ==
    /\ now < MaxClock
    /\ now' = now + 1
    /\ lastOp' = Op("tick", Null, Null, Null, FALSE, FALSE, FALSE)
    /\ UNCHANGED <<backend, localVars, remoteVars>>

\* constructor of a fresh CategoryService over the same localStorage
Construct ==
    /\ backend = "local"
    /\ categoriesSignal' = loadCategories(storage)
    /\ categoryCountMemo' = Null
    /\ categoryStatsMemo' = Null
    /\ lastOp' = Op("construct", Null, Null, Null, FALSE, FALSE, FALSE)
    /\ UNCHANGED <<backend, now, storage, remoteVars>>

\* createCategory(createCategoryDto)
createCategory(dto, rnd, r1, r2, r3, setItemThrows) ==
    LET newCategory == NewCategory(generateId(r1, rnd), dto, r2, r3)
        res == updateCategories(Append(categoriesSignal, newCategory),
                                categoriesSignal, storage, setItemThrows)
    IN  /\ backend = "local"
        /\ Len(categoriesSignal) < MaxCats
        /\ r1 = now /\ r1 <= r2 /\ r2 <= r3
        /\ now' = r3
        /\ categoriesSignal' = res.categoriesSignal
        /\ storage' = res.storage
        /\ signalSet(res.set)
        /\ lastOp' = Op("create", Null, dto, newCategory, TRUE, setItemThrows, res.raised)
        /\ UNCHANGED <<backend, remoteVars>>

\* updateCategory(id, updateCategoryDto)
updateCategory(id, dto, setItemThrows) ==
    LET currentCategories == categoriesSignal
        categoryIndex == findIndex(currentCategories, id)
    IN  /\ backend = "local"
        /\ IF categoryIndex = -1
           THEN /\ lastOp' = Op("update", id, dto, Null, FALSE, FALSE, FALSE)
                /\ UNCHANGED <<categoriesSignal, storage, localComputed>>
           ELSE LET updatedCategory ==
                        Merge(currentCategories[categoryIndex + 1], dto, now)
                    res == updateCategories(
                               ReplaceAt(currentCategories, categoryIndex, updatedCategory),
                               categoriesSignal, storage, setItemThrows)
                IN  /\ categoriesSignal' = res.categoriesSignal
                    /\ storage' = res.storage
                    /\ signalSet(res.set)
                    /\ lastOp' = Op("update", id, dto, updatedCategory, TRUE,
                                    setItemThrows, res.raised)
        /\ UNCHANGED <<backend, now, remoteVars>>

\* deleteCategory(id)
deleteCategory(id, setItemThrows) ==
    LET currentCategories == categoriesSignal
        filteredCategories == filterOut(currentCategories, id)
    IN  /\ backend = "local"
        /\ IF Len(filteredCategories) = Len(currentCategories)
           THEN /\ lastOp' = Op("delete", id, Null, [ok |-> FALSE], FALSE, FALSE, FALSE)
                /\ UNCHANGED <<categoriesSignal, storage, localComputed>>
           ELSE LET res == updateCategories(filteredCategories, categoriesSignal,
                                            storage, setItemThrows)
                IN  /\ categoriesSignal' = res.categoriesSignal
                    /\ storage' = res.storage
                    /\ signalSet(res.set)
                    /\ lastOp' = Op("delete", id, Null, [ok |-> TRUE], TRUE,
                                    setItemThrows, res.raised)
        /\ UNCHANGED <<backend, now, remoteVars>>

\* clearAllCategories()
clearAllCategories(setItemThrows) ==
    LET res == updateCategories(<<>>, categoriesSignal, storage, setItemThrows)
    IN  /\ backend = "local"
        /\ categoriesSignal' = res.categoriesSignal
        /\ storage' = res.storage
        /\ signalSet(res.set)
        /\ lastOp' = Op("clear", Null, Null, Null, TRUE, setItemThrows, res.raised)
        /\ UNCHANGED <<backend, now, remoteVars>>

\* a read of categoryCount(): the computed holds what it returned
readCategoryCount ==
    /\ backend = "local"
    /\ categoryCountMemo' = Held(categoryCount)
    /\ lastOp' = Op("categoryCount", Null, Null, Held(categoryCount), FALSE, FALSE, FALSE)
    /\ UNCHANGED <<backend, now, storage, categoriesSignal, categoryStatsMemo,
                   remoteVars>>

\* a read of categoryStats(): it reads categoryCount() when it has to run its
\* function again, and both computeds hold what they returned
readCategoryStats ==
    /\ backend = "local"
    /\ categoryCountMemo' =
           IF categoryStatsMemo = Null THEN Held(categoryCount) ELSE categoryCountMemo
    /\ categoryStatsMemo' = Held(categoryStats)
    /\ lastOp' = Op("categoryStats", Null, Null, Held(categoryStats), FALSE, FALSE, FALSE)
    /\ UNCHANGED <<backend, now, storage, categoriesSignal, remoteVars>>

\* ids a caller may pass: those it has seen, and one it has not
KnownIds == {categoriesSignal[i].id : i \in 1..Len(categoriesSignal)}

InitialStorage ==
    {StorageAbsent, StorageInvalid, StorageNonArray}

InitLocal ==
    /\ backend = "local"
    /\ now = 1
    /\ storage \in InitialStorage
    /\ categoriesSignal = loadCategories(storage)
    /\ serverNow = 1
    /\ docs = <<>>
    /\ pending = <<>>
    /\ subscription = "open"
    /\ fbCategoriesSignal = <<>>
    /\ categoryCountMemo = Null
    /\ categoryStatsMemo = Null
    /\ fbCategoryCountMemo = Null
    /\ fbCategoryStatsMemo = Null
    /\ lastOp = Op("construct", Null, Null, Null, FALSE, FALSE, FALSE)

NextLocal ==
    \/ Construct
    \/ \E dto \in CreateDtos, rnd \in Suffixes, r1, r2, r3 \in Readings,
          setItemThrows \in BOOLEAN :
          createCategory(dto, rnd, r1, r2, r3, setItemThrows)
    \/ \E id \in KnownIds \cup {UnknownId}, dto \in UpdateDtos,
          setItemThrows \in BOOLEAN :
          updateCategory(id, dto, setItemThrows)
    \/ \E id \in KnownIds \cup {UnknownId}, setItemThrows \in BOOLEAN :
          deleteCategory(id, setItemThrows)
    \/ \E setItemThrows \in BOOLEAN : clearAllCategories(setItemThrows)

\* a record written by an earlier session
StoredCategory ==
    NewCategory(generateId(1, "p5c2v8n3d"),
                [name |-> "Stored", color |-> "#00f", backgroundColor |-> "#eee",
                 icon |-> "archive"], 1, 1)

\* what the constructor may find under STORAGE_KEY
StoredValues ==
    {StorageAbsent, StorageInvalid, StorageNonArray, StorageArrayOfNumber,
     StorageArrayOfNull, JSONstringify(<<StoredCategory>>)}

InitLoad ==
    /\ backend = "local"
    /\ now = 1
    /\ storage \in StoredValues
    /\ categoriesSignal = loadCategories(storage)
    /\ serverNow = 1
    /\ docs = <<>>
    /\ pending = <<>>
    /\ subscription = "open"
    /\ fbCategoriesSignal = <<>>
    /\ categoryCountMemo = Null
    /\ categoryStatsMemo = Null
    /\ fbCategoryCountMemo = Null
    /\ fbCategoryStatsMemo = Null
    /\ lastOp = Op("construct", Null, Null, Null, FALSE, FALSE, FALSE)

\* the local store over whatever an earlier session or another program left
\* in localStorage
SpecLoad == InitLoad /\ [][Tick \/ NextLocal]_vars

(***************************************************************************)
(* FirebaseCategoryService (remote store): pure parts                      *)
(***************************************************************************)

\* document keys Firestore may generate, in the order snapshots list them
DocKeyOrder == <<"docA", "docB">>

DocKeys == {DocKeyOrder[i] : i \in 1..Len(DocKeyOrder)}

DocId(k) == [key |-> k]

UnknownDocId == [key |-> "none"]

\* Firestore Timestamp and Timestamp.toDate()
Timestamp(ms) == [ms |-> ms]

toDate(ts) == ts.ms

\* collectionData(collection, { idField: 'id' }): every document of the
\* collection with its key as id, in key order
Snapshot(collection) ==
    LET present == SelectSeq(DocKeyOrder, LAMBDA k : k \in DOMAIN collection)
    IN  [i \in 1..Len(present) |->
            [id |-> DocId(present[i]),
             name |-> collection[present[i]].name,
             color |-> collection[present[i]].color,
             backgroundColor |-> collection[present[i]].backgroundColor,
             icon |-> collection[present[i]].icon,
             createdAt |-> collection[present[i]].createdAt,
             updatedAt |-> collection[present[i]].updatedAt]]

\* getCategories$: docs.map(doc => ({ id, name, ..., createdAt: doc.createdAt?.toDate()
\* || new Date(), updatedAt: doc.updatedAt?.toDate() || new Date() })).  Each
\* pending field takes its own reading of the clock: readings[2i - 1] is the
\* clock where createdAt of document i is evaluated, readings[2i] where its
\* updatedAt is
MapDocs(snapshot, readings) ==
    [i \in 1..Len(snapshot) |->
        [id |-> snapshot[i].id,
         name |-> snapshot[i].name,
         color |-> snapshot[i].color,
         backgroundColor |-> snapshot[i].backgroundColor,
         icon |-> snapshot[i].icon,
         createdAt |-> IF snapshot[i].createdAt # Null
                       THEN toDate(snapshot[i].createdAt)
                       ELSE readings[2 * i - 1],
         updatedAt |-> IF snapshot[i].updatedAt # Null
                       THEN toDate(snapshot[i].updatedAt)
                       ELSE readings[2 * i]]]

\* the clock along the n field evaluations of one map: it stands at `now` and
\* from evaluation tickAt on at `later`
ClockAlong(n, tickAt, later) ==
    [p \in 1..n |-> IF p >= tickAt THEN later ELSE now]

\* the clock standing still during a map
ClockStill(n) == [p \in 1..n |-> now]

\* the evaluations of the map that read the clock: those of pending fields
PendingFields(snapshot) ==
    {p \in 1..(2 * Len(snapshot)) :
        \E i \in 1..Len(snapshot) :
            \/ p = 2 * i - 1 /\ snapshot[i].createdAt = Null
            \/ p = 2 * i /\ snapshot[i].updatedAt = Null}

\* the last reading new Date() took during the map, `now` when it took none
LastReading(snapshot, readings) ==
    LET taken == PendingFields(snapshot)
    IN  IF taken = {} THEN now
        ELSE readings[CHOOSE p \in taken : \A q \in taken : q <= p]

\* A plausible slip: keep what is cached and add the records not yet cached
subscriptionMerge(cached, categories) ==
    cached \o SelectSeq(categories,
                        LAMBDA c : \A i \in 1..Len(cached) : cached[i].id # c.id)

\* A plausible slip: seed the cache from the first snapshot only
subscriptionSetOnce(cached, categories) ==
    IF cached = <<>> THEN categories ELSE cached

\* next: (categories) => this.categoriesSignal.set(categories)
subscriptionSet(cached, categories) == categories

\* this.categoryCount(), read in the current state
fbCategoryCount == computedCount(fbCategoryCountMemo, fbCategoriesSignal)

\* this.categoryStats(), read in the current state
fbCategoryStats == computedStats(fbCategoryStatsMemo, fbCategoryCount)

\* the computed signals after this.categoriesSignal.set(...)
fbSignalSet ==
    /\ fbCategoryCountMemo' = computedAfterSet(fbCategoryCountMemo)
    /\ fbCategoryStatsMemo' = computedAfterSet(fbCategoryStatsMemo)

\* the data written by addDoc / a document another client wrote
NewDoc(dto, created, updated) ==
    [name |-> dto.name, color |-> dto.color, backgroundColor |-> dto.backgroundColor,
     icon |-> dto.icon, createdAt |-> created, updatedAt |-> updated]

\* the collection with document k set to d
WithDoc(collection, k, d) ==
    [j \in DOMAIN collection \cup {k} |-> IF j = k THEN d ELSE collection[j]]

\* the collection without document k
WithoutDoc(collection, k) ==
    [j \in DOMAIN collection \ {k} |-> collection[j]]

\* updateDoc(ref, { ...updateCategoryDto, updatedAt: serverTimestamp() })
UpdatedDoc(d, dto, ts) ==
    [f \in DOMAIN d |->
        IF f = "updatedAt" THEN ts
        ELSE IF f \in DOMAIN dto THEN dto[f] ELSE d[f]]

\* a write of this client laid over a collection before its acknowledgment:
\* server timestamps are still pending
ApplyWrite(collection, p) ==
    IF p.op = "create"
    THEN WithDoc(collection, p.id.key, NewDoc(p.dto, Null, Null))
    ELSE IF p.op = "update"
    THEN IF p.id.key \in DOMAIN collection
         THEN WithDoc(collection, p.id.key, UpdatedDoc(collection[p.id.key], p.dto, Null))
         ELSE collection
    ELSE WithoutDoc(collection, p.id.key)

\* the collection as this client sees it: the server's documents with the
\* client's unacknowledged writes laid over them, oldest first
RECURSIVE LocalView(_, _)
LocalView(collection, writes) ==
    IF writes = <<>> THEN collection
    ELSE LocalView(ApplyWrite(collection, Head(writes)), Tail(writes))

\* the writes in flight, and the queue without the first occurrence of one
InFlight(writes) == {writes[i] : i \in 1..Len(writes)}

Settled(writes, p) ==
    LET i == CHOOSE j \in 1..Len(writes) :
                 /\ writes[j] = p
                 /\ \A h \in 1..(j - 1) : writes[h] # p
    IN  SubSeq(writes, 1, i - 1) \o SubSeq(writes, i + 1, Len(writes))

(***************************************************************************)
(* FirebaseCategoryService (remote store): operations                      *)
(***************************************************************************)

\* A plausible slip: subscribe again after a failure, so snapshots keep arriving
subscriptionNextResubscribed(tickAt, later) ==
    \E view \in {LocalView(docs, pending)} :
    \E snapshot \in {Snapshot(view)} :
    LET readings == ClockAlong(2 * Len(snapshot), tickAt, later)
    IN  /\ backend = "remote"
        /\ subscription' = "open"
        /\ fbCategoriesSignal' =
               subscriptionSet(fbCategoriesSignal, MapDocs(snapshot, readings))
        /\ fbSignalSet
        /\ now' = LastReading(snapshot, readings)
        /\ lastOp' = Op("next", Null, Null, Null, FALSE, FALSE, FALSE)
        /\ UNCHANGED <<backend, localVars, serverNow, docs, pending>>

\* the subscription's next handler, run on the snapshot it is handed; the clock
\* may advance between two evaluations of new Date() in the map
subscriptionNext(tickAt, later) ==
    \E view \in {LocalView(docs, pending)} :
    \E snapshot \in {Snapshot(view)} :
    LET readings == ClockAlong(2 * Len(snapshot), tickAt, later)
    IN  /\ backend = "remote"
        /\ subscription = "open"
        /\ fbCategoriesSignal' =
               subscriptionSet(fbCategoriesSignal, MapDocs(snapshot, readings))
        /\ fbSignalSet
        /\ now' = LastReading(snapshot, readings)
        /\ lastOp' = Op("next", Null, Null, Null, FALSE, FALSE, FALSE)
        /\ UNCHANGED <<backend, localVars, serverNow, docs, pending, subscription>>

\* a delivery of the subscription: the clock stands still during the map
\* (tickAt 0), or has advanced when one of the pending fields reads it
Deliver ==
    \E view \in {LocalView(docs, pending)} :
    \E snapshot \in {Snapshot(view)} :
    \E tickAt \in PendingFields(snapshot) \cup {0}, later \in Readings :
        /\ (tickAt = 0) <=> (later = now)
        /\ subscriptionNext(tickAt, later)

\* the subscription's error handler
subscriptionError ==
    /\ backend = "remote"
    /\ subscription = "open"
    /\ subscription' = "failed"
    /\ fbCategoriesSignal' = <<>>
    /\ fbSignalSet
    /\ lastOp' = Op("error", Null, Null, Null, FALSE, FALSE, FALSE)
    /\ UNCHANGED <<backend, now, localVars, serverNow, docs, pending>>

\* createCategory up to `await addDoc(...)`: the write is queued, whatever other
\* writes are awaiting their acknowledgment; k is the key of the new document
fbCreateCall(dto, k) ==
    /\ backend = "remote"
    /\ Len(pending) < MaxPending
    /\ k \notin DOMAIN docs
    /\ \A p \in InFlight(pending) : p.id.key # k
    /\ pending' = Append(pending, [op |-> "create", id |-> DocId(k), dto |-> dto,
                                    category |-> Null])
    /\ lastOp' = Op("createCall", DocId(k), dto, Null, TRUE, FALSE, FALSE)
    /\ UNCHANGED <<backend, now, localVars, serverNow, docs, subscription,
                   fbCategoriesSignal, remoteComputed>>

\* A plausible slip: put the returned record in the cache as well
fbCreateAckOptimistic(p, r1, r2) ==
    /\ backend = "remote"
    /\ p \in InFlight(pending) /\ p.op = "create"
    /\ r1 <= r2
    /\ docs' = WithDoc(docs, p.id.key,
                       NewDoc(p.dto, Timestamp(serverNow), Timestamp(serverNow)))
    /\ pending' = Settled(pending, p)
    /\ now' = r2
    /\ fbCategoriesSignal' = Append(fbCategoriesSignal, NewCategory(p.id, p.dto, r1, r2))
    /\ fbSignalSet
    /\ lastOp' = Op("create", p.id, p.dto, NewCategory(p.id, p.dto, r1, r2), TRUE,
                    FALSE, FALSE)
    /\ UNCHANGED <<backend, localVars, serverNow, subscription>>

\* addDoc acknowledged: the server stamps the document, createCategory returns
fbCreateAck(p, r1, r2) ==
    /\ backend = "remote"
    /\ p \in InFlight(pending) /\ p.op = "create"
    /\ r1 <= r2
    /\ docs' = WithDoc(docs, p.id.key,
                       NewDoc(p.dto, Timestamp(serverNow), Timestamp(serverNow)))
    /\ pending' = Settled(pending, p)
    /\ now' = r2
    /\ lastOp' = Op("create", p.id, p.dto, NewCategory(p.id, p.dto, r1, r2), TRUE,
                    FALSE, FALSE)
    /\ UNCHANGED <<backend, localVars, serverNow, subscription, fbCategoriesSignal,
                   remoteComputed>>

\* addDoc rejected: the write leaves the queue, createCategory rethrows
fbCreateFail(p) ==
    /\ backend = "remote"
    /\ p \in InFlight(pending) /\ p.op = "create"
    /\ pending' = Settled(pending, p)
    /\ lastOp' = Op("create", p.id, p.dto, Null, TRUE, TRUE, TRUE)
    /\ UNCHANGED <<backend, now, localVars, serverNow, docs, subscription,
                   fbCategoriesSignal, remoteComputed>>

\* A plausible slip: decide existence by the collection instead of the cache
fbGetCategoryByIdRemote(cats, id) ==
    IF id.key \in DOMAIN docs
    THEN LET fresh == MapDocs(Snapshot(docs), ClockStill(2 * Len(Snapshot(docs))))
         IN  fresh[CHOOSE i \in 1..Len(fresh) : fresh[i].id = id]
    ELSE Null

\* this.categories().find(c => c.id === id) of the remote store
fbGetCategoryById(cats, id) ==
    IF \E i \in 1..Len(cats) : cats[i].id = id
    THEN cats[CHOOSE i \in 1..Len(cats) :
                  /\ cats[i].id = id
                  /\ \A j \in 1..(i - 1) : cats[j].id # id]
    ELSE Null

\* updateCategory up to `await updateDoc(...)`, or its `return null`
fbUpdateCall(id, dto) ==
    LET category == fbGetCategoryById(fbCategoriesSignal, id)
    IN  /\ backend = "remote"
        /\ IF category = Null
           THEN /\ lastOp' = Op("update", id, dto, Null, FALSE, FALSE, FALSE)
                /\ UNCHANGED pending
           ELSE /\ Len(pending) < MaxPending
                /\ pending' = Append(pending, [op |-> "update", id |-> id, dto |-> dto,
                                               category |-> category])
                /\ lastOp' = Op("updateCall", id, dto, Null, TRUE, FALSE, FALSE)
        /\ UNCHANGED <<backend, now, localVars, serverNow, docs, subscription,
                       fbCategoriesSignal, remoteComputed>>

\* updateDoc acknowledged: the server merges the fields and stamps updatedAt,
\* updateCategory returns its local merge
fbUpdateAck(p) ==
    /\ backend = "remote"
    /\ p \in InFlight(pending) /\ p.op = "update"
    /\ p.id.key \in DOMAIN docs
    /\ docs' = WithDoc(docs, p.id.key,
                       UpdatedDoc(docs[p.id.key], p.dto, Timestamp(serverNow)))
    /\ pending' = Settled(pending, p)
    /\ lastOp' = Op("update", p.id, p.dto, Merge(p.category, p.dto, now), TRUE, FALSE, FALSE)
    /\ UNCHANGED <<backend, now, localVars, serverNow, subscription, fbCategoriesSignal,
                   remoteComputed>>

\* updateDoc rejected (the document is gone, or the service refuses): the
\* write leaves the queue, updateCategory rethrows
fbUpdateFail(p) ==
    /\ backend = "remote"
    /\ p \in InFlight(pending) /\ p.op = "update"
    /\ pending' = Settled(pending, p)
    /\ lastOp' = Op("update", p.id, p.dto, Null, TRUE, TRUE, TRUE)
    /\ UNCHANGED <<backend, now, localVars, serverNow, docs, subscription,
                   fbCategoriesSignal, remoteComputed>>

\* deleteCategory up to `await deleteDoc(...)`, or its `return false`
fbDeleteCall(id) ==
    LET category == fbGetCategoryById(fbCategoriesSignal, id)
    IN  /\ backend = "remote"
        /\ IF category = Null
           THEN /\ lastOp' = Op("delete", id, Null, [ok |-> FALSE], FALSE, FALSE, FALSE)
                /\ UNCHANGED pending
           ELSE /\ Len(pending) < MaxPending
                /\ pending' = Append(pending, [op |-> "delete", id |-> id, dto |-> Null,
                                               category |-> Null])
                /\ lastOp' = Op("deleteCall", id, Null, Null, TRUE, FALSE, FALSE)
        /\ UNCHANGED <<backend, now, localVars, serverNow, docs, subscription,
                       fbCategoriesSignal, remoteComputed>>

\* deleteDoc acknowledged (it succeeds whether or not the document exists)
fbDeleteAck(p) ==
    /\ backend = "remote"
    /\ p \in InFlight(pending) /\ p.op = "delete"
    /\ docs' = WithoutDoc(docs, p.id.key)
    /\ pending' = Settled(pending, p)
    /\ lastOp' = Op("delete", p.id, Null, [ok |-> TRUE], TRUE, FALSE, FALSE)
    /\ UNCHANGED <<backend, now, localVars, serverNow, subscription, fbCategoriesSignal,
                   remoteComputed>>

\* deleteDoc rejected: deleteCategory rethrows
fbDeleteFail(p) ==
    /\ backend = "remote"
    /\ p \in InFlight(pending) /\ p.op = "delete"
    /\ pending' = Settled(pending, p)
    /\ lastOp' = Op("delete", p.id, Null, Null, TRUE, TRUE, TRUE)
    /\ UNCHANGED <<backend, now, localVars, serverNow, docs, subscription, fbCategoriesSignal,
                   remoteComputed>>

\* The server clock advances
ServerTick ==
    /\ backend = "remote"
    /\ serverNow < MaxClock
    /\ serverNow' = serverNow + 1
    /\ lastOp' = Op("serverTick", Null, Null, Null, FALSE, FALSE, FALSE)
    /\ UNCHANGED <<backend, now, localVars, docs, pending, subscription, fbCategoriesSignal,
                   remoteComputed>>

\* Another client of the collection creates a document
OtherClientCreates(dto, k) ==
    /\ backend = "remote"
    /\ k \notin DOMAIN docs
    /\ \A p \in InFlight(pending) : p.id.key # k
    /\ docs' = WithDoc(docs, k, NewDoc(dto, Timestamp(serverNow), Timestamp(serverNow)))
    /\ lastOp' = Op("otherCreate", DocId(k), dto, Null, FALSE, FALSE, FALSE)
    /\ UNCHANGED <<backend, now, localVars, serverNow, pending, subscription,
                   fbCategoriesSignal, remoteComputed>>

\* Another client of the collection updates a document
OtherClientUpdates(k, dto) ==
    /\ backend = "remote"
    /\ k \in DOMAIN docs
    /\ docs' = WithDoc(docs, k, UpdatedDoc(docs[k], dto, Timestamp(serverNow)))
    /\ lastOp' = Op("otherUpdate", DocId(k), dto, Null, FALSE, FALSE, FALSE)
    /\ UNCHANGED <<backend, now, localVars, serverNow, pending, subscription,
                   fbCategoriesSignal, remoteComputed>>

\* Another client of the collection deletes a document
OtherClientDeletes(k) ==
    /\ backend = "remote"
    /\ k \in DOMAIN docs
    /\ docs' = WithoutDoc(docs, k)
    /\ lastOp' = Op("otherDelete", DocId(k), Null, Null, FALSE, FALSE, FALSE)
    /\ UNCHANGED <<backend, now, localVars, serverNow, pending, subscription,
                   fbCategoriesSignal, remoteComputed>>

\* ids a caller of the remote store may pass
\* a read of categoryCount(): the computed holds what it returned
fbReadCategoryCount ==
    /\ backend = "remote"
    /\ fbCategoryCountMemo' = Held(fbCategoryCount)
    /\ lastOp' = Op("categoryCount", Null, Null, Held(fbCategoryCount), FALSE, FALSE,
                    FALSE)
    /\ UNCHANGED <<backend, now, localVars, serverNow, docs, pending, subscription,
                   fbCategoriesSignal, fbCategoryStatsMemo>>

\* a read of categoryStats(): it reads categoryCount() when it has to run its
\* function again, and both computeds hold what they returned
fbReadCategoryStats ==
    /\ backend = "remote"
    /\ fbCategoryCountMemo' =
           IF fbCategoryStatsMemo = Null THEN Held(fbCategoryCount)
           ELSE fbCategoryCountMemo
    /\ fbCategoryStatsMemo' = Held(fbCategoryStats)
    /\ lastOp' = Op("categoryStats", Null, Null, Held(fbCategoryStats), FALSE, FALSE,
                    FALSE)
    /\ UNCHANGED <<backend, now, localVars, serverNow, docs, pending, subscription,
                   fbCategoriesSignal>>

fbKnownIds ==
    {fbCategoriesSignal[i].id : i \in 1..Len(fbCategoriesSignal)}
        \cup {DocId(k) : k \in DOMAIN docs}
        \cup {p.id : p \in InFlight(pending)}

InitRemote ==
    /\ backend = "remote"
    /\ now = 1
    /\ storage = StorageAbsent
    /\ categoriesSignal = <<>>
    /\ serverNow = 1
    /\ docs = <<>>
    /\ pending = <<>>
    /\ subscription = "open"
    /\ fbCategoriesSignal = <<>>
    /\ categoryCountMemo = Null
    /\ categoryStatsMemo = Null
    /\ fbCategoryCountMemo = Null
    /\ fbCategoryStatsMemo = Null
    /\ lastOp = Op("construct", Null, Null, Null, FALSE, FALSE, FALSE)

\* the calls and handlers of the store
NextRemoteStore ==
    \/ Deliver
    \/ subscriptionError
    \/ \E dto \in fbCreateDtos, k \in DocKeys : fbCreateCall(dto, k)
    \/ \E p \in InFlight(pending), r1, r2 \in Readings : fbCreateAck(p, r1, r2)
    \/ \E p \in InFlight(pending) : fbCreateFail(p)
    \/ \E id \in fbKnownIds \cup {UnknownDocId}, dto \in fbUpdateDtos : fbUpdateCall(id, dto)
    \/ \E p \in InFlight(pending) : fbUpdateAck(p)
    \/ \E p \in InFlight(pending) : fbUpdateFail(p)
    \/ \E id \in fbKnownIds \cup {UnknownDocId} : fbDeleteCall(id)
    \/ \E p \in InFlight(pending) : fbDeleteAck(p)
    \/ \E p \in InFlight(pending) : fbDeleteFail(p)

NextRemote ==
    \/ NextRemoteStore
    \/ ServerTick
    \/ \E dto \in fbCreateDtos, k \in DocKeys : OtherClientCreates(dto, k)

\* what other clients do to documents that exist
NextOthers ==
    \/ \E k \in DocKeys, dto \in fbUpdateDtos : OtherClientUpdates(k, dto)
    \/ \E k \in DocKeys : OtherClientDeletes(k)

Init == InitLocal \/ InitRemote

Next == Tick \/ NextLocal \/ NextRemote

\* either store
Spec == Init /\ [][Next]_vars

\* reads of the computed signals of either store
NextComputed ==
    \/ readCategoryCount
    \/ readCategoryStats
    \/ fbReadCategoryCount
    \/ fbReadCategoryStats

\* the local store with its computed signals being read between the calls
SpecLocalComputed ==
    InitLocal /\ [][Tick \/ NextLocal \/ readCategoryCount \/ readCategoryStats]_vars

\* the local store alone
SpecLocal == InitLocal /\ [][Tick \/ NextLocal]_vars

\* the remote store alone
SpecRemote == InitRemote /\ [][Tick \/ NextRemote]_vars

\* the remote store late in a session: both clocks stand at their last reading
InitRemoteFair ==
    /\ backend = "remote"
    /\ now = MaxClock
    /\ storage = StorageAbsent
    /\ categoriesSignal = <<>>
    /\ serverNow = MaxClock
    /\ docs = <<>>
    /\ pending = <<>>
    /\ subscription = "open"
    /\ fbCategoriesSignal = <<>>
    /\ categoryCountMemo = Null
    /\ categoryStatsMemo = Null
    /\ fbCategoryCountMemo = Null
    /\ fbCategoryStatsMemo = Null
    /\ lastOp = Op("construct", Null, Null, Null, FALSE, FALSE, FALSE)

NextRemoteFair ==
    \/ NextRemoteStore
    \/ \E dto \in fbCreateDtos, k \in DocKeys : OtherClientCreates(dto, k)
    \/ NextOthers

\* the remote store among other clients, its subscription delivering every
\* snapshot eventually while it is open
SpecRemoteFair ==
    /\ InitRemoteFair
    /\ [][NextRemoteFair]_vars
    /\ WF_vars(Deliver)

\* either store with its computed signals being read between the calls and
\* notifications; the remote store late in a session and among other clients
SpecComputed ==
    /\ InitLocal \/ InitRemoteFair
    /\ [][Tick \/ NextLocal \/ NextRemoteFair \/ NextComputed]_vars

(***************************************************************************)
(* Callers that write through what the stores hand out.  getCategories()   *)
(* returns this.categories(), the array the signal holds, and find(...)    *)
(* returns the element of that array: neither store copies.                *)
(***************************************************************************)

\* local store: getCategories().pop().  No set tells the computed signals: a
\* count they hold from before the pop is what they return after it
getCategoriesThenPop ==
    /\ backend = "local"
    /\ categoriesSignal # <<>>
    /\ categoriesSignal' = SubSeq(categoriesSignal, 1, Len(categoriesSignal) - 1)
    /\ lastOp' = Op("callerPop", Null, Null, Null, FALSE, FALSE, FALSE)
    /\ UNCHANGED <<backend, now, storage, localComputed, remoteVars>>

\* local store: getCategoryById(id).icon = icon, on a record that is found
getCategoryByIdThenSet(id, icon) ==
    /\ backend = "local"
    /\ getCategoryById(categoriesSignal, id) # Null
    /\ categoriesSignal' =
           [categoriesSignal EXCEPT ![findIndex(categoriesSignal, id) + 1].icon = icon]
    /\ lastOp' = Op("callerSet", id, [icon |-> icon], Null, FALSE, FALSE, FALSE)
    /\ UNCHANGED <<backend, now, storage, localComputed, remoteVars>>

\* remote store: getCategories().pop()
fbGetCategoriesThenPop ==
    /\ backend = "remote"
    /\ fbCategoriesSignal # <<>>
    /\ fbCategoriesSignal' = SubSeq(fbCategoriesSignal, 1, Len(fbCategoriesSignal) - 1)
    /\ lastOp' = Op("callerPop", Null, Null, Null, FALSE, FALSE, FALSE)
    /\ UNCHANGED <<backend, now, localVars, serverNow, docs, pending, subscription,
                   remoteComputed>>

\* icons a caller may write
CallerIcons == {"star"}

NextCallers ==
    \/ getCategoriesThenPop
    \/ \E id \in KnownIds, icon \in CallerIcons : getCategoryByIdThenSet(id, icon)
    \/ fbGetCategoriesThenPop

\* either store, with callers that write through what they were handed
SpecCallers == Init /\ [][Next \/ NextCallers]_vars

(***************************************************************************)
(* Claims                                                                  *)
(***************************************************************************)

IsCategory(r) == "createdAt" \in DOMAIN r

\* position (1-based) of the first record of cats with this id
FirstWithId(cats, id) ==
    CHOOSE i \in 1..Len(cats) :
        /\ cats[i].id = id
        /\ \A j \in 1..(i - 1) : cats[j].id # id

HasId(cats, id) == \E i \in 1..Len(cats) : cats[i].id = id

\* C1: local store: a create, update or delete whose storage write throws
\* ends by raising the failure to its caller.
C1_WriteFailureRaised ==
    (backend = "local" /\ lastOp.op \in {"create", "update", "delete"}
        /\ lastOp.writeFailed)
    => lastOp.raised

\* C2: local store: right after createCategory(dto) returns c, getCategoryById(c.id)
\* is c, c carries the dto's four fields, and the collection is the previous
\* collection with c appended.
C2_CreateRoundTrip ==
    [][(backend = "local" /\ lastOp'.op = "create" /\ ~lastOp'.raised)
        => /\ getCategoryById(categoriesSignal', lastOp'.returned.id) = lastOp'.returned
           /\ \A f \in DtoFields : lastOp'.returned[f] = lastOp'.dto[f]
           /\ categoriesSignal' = Append(categoriesSignal, lastOp'.returned)]_vars

\* C3: local store: when deleteCategory(id) returns true the collection has lost
\* exactly one record, keeps every other record in order, and no longer finds id.
C3_DeleteRemovesExactlyOne ==
    [][(backend = "local" /\ lastOp'.op = "delete" /\ lastOp'.returned = [ok |-> TRUE])
        => /\ Len(categoriesSignal') = Len(categoriesSignal) - 1
           /\ \E i \in 1..Len(categoriesSignal) :
                 /\ categoriesSignal[i].id = lastOp'.id
                 /\ categoriesSignal' =
                        SubSeq(categoriesSignal, 1, i - 1)
                            \o SubSeq(categoriesSignal, i + 1, Len(categoriesSignal))
           /\ getCategoryById(categoriesSignal', lastOp'.id) = Null]_vars

UniqueIds(cats) ==
    \A i, j \in 1..Len(cats) : i # j => cats[i].id # cats[j].id

\* C4: in every reachable state of either store no two records of the
\* categories collection have the same id.
C4_UniqueIds == UniqueIds(categoriesSignal) /\ UniqueIds(fbCategoriesSignal)

\* the cached record is the document: same key and fields, and the server
\* timestamps the document carries
SameAsDocument(c, k, d) ==
    /\ c.id = DocId(k) /\ c.name = d.name /\ c.color = d.color
    /\ c.backgroundColor = d.backgroundColor /\ c.icon = d.icon
    /\ d.createdAt # Null => c.createdAt = d.createdAt.ms
    /\ d.updatedAt # Null => c.updatedAt = d.updatedAt.ms

\* C5: remote store: right after the subscription handler has run on a snapshot,
\* the cache is that snapshot (the collection as this client sees it), record for
\* record and in its order, whatever writes are awaiting acknowledgment.
C5_CacheIsDeliveredSnapshot ==
    (backend = "remote" /\ lastOp.op = "next")
    => LET view == LocalView(docs, pending)
       IN  /\ Len(fbCategoriesSignal) = Cardinality(DOMAIN view)
           /\ \A i \in 1..Len(fbCategoriesSignal) :
                 /\ fbCategoriesSignal[i].id.key \in DOMAIN view
                 /\ SameAsDocument(fbCategoriesSignal[i], fbCategoriesSignal[i].id.key,
                                   view[fbCategoriesSignal[i].id.key])
                 /\ \A j \in 1..(i - 1) :
                       \E a, b \in 1..Len(DocKeyOrder) :
                           /\ a < b
                           /\ DocKeyOrder[a] = fbCategoriesSignal[j].id.key
                           /\ DocKeyOrder[b] = fbCategoriesSignal[i].id.key

C5_Witness ==
    /\ backend = "remote" /\ lastOp.op = "next"
    /\ Len(pending) = 2
    /\ Len(fbCategoriesSignal) = 2
    /\ \E k \in DOMAIN LocalView(docs, pending) :
          LocalView(docs, pending)[k].createdAt = Null

\* C6: local store: updateCategory or deleteCategory with an id that matches no
\* record returns null or false, writes nothing, and leaves the collection as
\* it was.
C6_UnknownIdChangesNothing ==
    [][(backend = "local" /\ lastOp'.op \in {"update", "delete"}
            /\ ~HasId(categoriesSignal, lastOp'.id))
        => /\ lastOp'.op = "update" => lastOp'.returned = Null
           /\ lastOp'.op = "delete" => lastOp'.returned = [ok |-> FALSE]
           /\ ~lastOp'.wrote
           /\ storage' = storage
           /\ categoriesSignal' = categoriesSignal]_vars

C6_Witness ==
    /\ backend = "local" /\ lastOp.op = "update"
    /\ lastOp.id = UnknownId /\ lastOp.returned = Null
    /\ Len(categoriesSignal) = 2

\* C7: local store: an updateCategory(id, dto) that finds the record changes only
\* the dto's fields and updatedAt; id, createdAt, the other fields, the record's
\* position and all other records stay as they were.
C7_UpdateFrame ==
    [][(backend = "local" /\ lastOp'.op = "update" /\ lastOp'.returned # Null)
        => LET i == FirstWithId(categoriesSignal, lastOp'.id)
               old == categoriesSignal[i]
               new == lastOp'.returned
           IN  /\ HasId(categoriesSignal, lastOp'.id)
               /\ DOMAIN new = DOMAIN old
               /\ new.id = old.id
               /\ new.createdAt = old.createdAt
               /\ \A f \in DtoFields :
                     new[f] = IF f \in DOMAIN lastOp'.dto THEN lastOp'.dto[f] ELSE old[f]
               /\ Len(categoriesSignal') = Len(categoriesSignal)
               /\ \A j \in 1..Len(categoriesSignal) :
                     j # i => categoriesSignal'[j] = categoriesSignal[j]
               /\ categoriesSignal'[i] = IF lastOp'.writeFailed THEN old ELSE new]_vars

C7_Witness ==
    /\ backend = "local" /\ lastOp.op = "update" /\ lastOp.returned # Null
    /\ ~lastOp.writeFailed
    /\ Len(categoriesSignal) = 2
    /\ categoriesSignal[2] = lastOp.returned
    /\ categoriesSignal[2].name = "Job" /\ categoriesSignal[2].icon = "home"
    /\ categoriesSignal[1].name = "Work"

\* C8 as claimed: updateCategory on an existing category leaves the record with an
\* updatedAt strictly greater than the one it had before the call.
C8_StrictlyLater ==
    [][(backend = "local" /\ lastOp'.op = "update" /\ lastOp'.returned # Null
            /\ HasId(categoriesSignal, lastOp'.id))
        => lastOp'.returned.updatedAt >
               categoriesSignal[FirstWithId(categoriesSignal, lastOp'.id)].updatedAt]_vars

\* C8 as amended: local store: updateCategory on an existing category stamps the
\* record with the clock reading of the call, which is never earlier than the
\* updatedAt the record had before (equal when both fall in the same millisecond).
C8_NotEarlier ==
    [][(backend = "local" /\ lastOp'.op = "update" /\ lastOp'.returned # Null
            /\ HasId(categoriesSignal, lastOp'.id))
        => /\ lastOp'.returned.updatedAt = now'
           /\ lastOp'.returned.updatedAt >=
                  categoriesSignal[FirstWithId(categoriesSignal, lastOp'.id)].updatedAt]_vars

C8_Witness ==
    /\ backend = "local" /\ lastOp.op = "update" /\ lastOp.returned # Null
    /\ ~lastOp.writeFailed
    /\ HasId(categoriesSignal, lastOp.id)
    /\ lastOp.returned.updatedAt = lastOp.returned.createdAt

\* C9: in every reachable state of either store, after any sequence of loads or
\* notifications, creates, updates, deletes and clears (failed ones included)
\* and of reads of the computed signals between them, a read of categoryCount
\* gives the length of the collection and a read of categoryStats gives total
\* equal to categoryCount, empty equal to total and withTasks 0; so did the
\* read that has just returned.
C9_CountAndStats ==
    /\ categoryCount = Len(categoriesSignal)
    /\ categoryStats.total = categoryCount
    /\ categoryStats.empty = categoryStats.total
    /\ categoryStats.withTasks = 0
    /\ fbCategoryCount = Len(fbCategoriesSignal)
    /\ fbCategoryStats.total = fbCategoryCount
    /\ fbCategoryStats.empty = fbCategoryStats.total
    /\ fbCategoryStats.withTasks = 0
    /\ lastOp.op = "categoryCount"
          => lastOp.returned.value =
                 IF backend = "local" THEN Len(categoriesSignal)
                 ELSE Len(fbCategoriesSignal)
    /\ lastOp.op = "categoryStats"
          => lastOp.returned.value =
                 IF backend = "local"
                 THEN [total |-> Len(categoriesSignal), withTasks |-> 0,
                       empty |-> Len(categoriesSignal)]
                 ELSE [total |-> Len(fbCategoriesSignal), withTasks |-> 0,
                       empty |-> Len(fbCategoriesSignal)]

\* categoryStats has just been read over two records, and both computed
\* signals hold what the read computed
C9_Witness ==
    /\ backend = "local" /\ lastOp.op = "categoryStats"
    /\ lastOp.returned.value.total = 2
    /\ categoryCountMemo = Held(2)
    /\ categoryStatsMemo = lastOp.returned

\* C10: in every reachable state of either store every record of the collection,
\* and every record createCategory or updateCategory returns, has
\* updatedAt >= createdAt.
C10_UpdatedNotBeforeCreated ==
    /\ \A i \in 1..Len(categoriesSignal) :
          categoriesSignal[i].updatedAt >= categoriesSignal[i].createdAt
    /\ \A i \in 1..Len(fbCategoriesSignal) :
          fbCategoriesSignal[i].updatedAt >= fbCategoriesSignal[i].createdAt
    /\ (lastOp.op \in {"create", "update"} /\ IsCategory(lastOp.returned))
          => lastOp.returned.updatedAt >= lastOp.returned.createdAt

\* C11: local store: a create, update, delete or clear whose storage write fails
\* leaves the reactive categories value as it was before the call, and with it
\* what categoryCount and categoryStats return when read and what they hold.
C11_FailedWriteKeepsSignal ==
    [][(backend = "local" /\ lastOp'.op \in {"create", "update", "delete", "clear"}
            /\ lastOp'.writeFailed)
        => /\ categoriesSignal' = categoriesSignal
           /\ categoryCount' = categoryCount
           /\ categoryStats' = categoryStats
           /\ categoryCountMemo' = categoryCountMemo
           /\ categoryStatsMemo' = categoryStatsMemo]_vars

\* a clear failed over two records while both computed signals held a value
C11_Witness ==
    /\ backend = "local" /\ lastOp.op = "clear" /\ lastOp.writeFailed
    /\ Len(categoriesSignal) = 2
    /\ categoryCountMemo = Held(2)
    /\ categoryStatsMemo # Null

\* C12: callers only hold copies: a caller that changes in place the array
\* getCategories() returned, or a record a store returned, leaves the store's
\* in-memory collection as it was.
C12_CallersHoldCopies ==
    [][lastOp'.op \in {"callerPop", "callerSet"}
        => /\ categoriesSignal' = categoriesSignal
           /\ fbCategoriesSignal' = fbCategoriesSignal]_vars

\* a stored item that is a category record
IsStoredRecord(item) == "id" \in DOMAIN item /\ item.id # Null

\* C13: local store: after construction the collection is empty when the key is
\* absent, empty when the stored value is invalid text or valid text that is not
\* an array of records, and otherwise holds the stored records in their order.
C13_LoadDegradesToEmpty ==
    (backend = "local" /\ lastOp.op = "construct")
    => IF storage.kind # "array"
       THEN categoriesSignal = <<>>
       ELSE IF \E i \in 1..Len(storage.items) : ~IsStoredRecord(storage.items[i])
       THEN categoriesSignal = <<>>
       ELSE /\ Len(categoriesSignal) = Len(storage.items)
            /\ \A i \in 1..Len(storage.items) :
                  /\ categoriesSignal[i].id = storage.items[i].id
                  /\ \A f \in DtoFields : categoriesSignal[i][f] = storage.items[i][f]

\* C14: remote store: createCategory, updateCategory and deleteCategory leave the
\* cached categories value as it is, whether they succeed, fail or return
\* not-found; only the subscription's next and error handlers change it, next to
\* the delivered snapshot and error to the empty collection.
C14_OnlySubscriptionWritesCache ==
    [][backend = "remote"
        => /\ lastOp'.op \in {"createCall", "create", "updateCall", "update",
                               "deleteCall", "delete"}
                 => fbCategoriesSignal' = fbCategoriesSignal
           /\ fbCategoriesSignal' # fbCategoriesSignal
                 => \/ lastOp'.op = "next"
                          /\ \E tickAt \in 0..(2 * Len(DocKeyOrder)), later \in Readings :
                                fbCategoriesSignal' =
                                    MapDocs(Snapshot(LocalView(docs, pending)),
                                            ClockAlong(2 * Len(DocKeyOrder), tickAt, later))
                    \/ lastOp'.op = "error" /\ fbCategoriesSignal' = <<>>]_vars

C14_Witness ==
    /\ backend = "remote" /\ lastOp.op = "create" /\ ~lastOp.raised
    /\ lastOp.id.key \in DOMAIN docs
    /\ Len(fbCategoriesSignal) = 1
    /\ ~HasId(fbCategoriesSignal, lastOp.id)

\* the cache holds a record with this document key and the dto's four fields
CachedWith(k, dto) ==
    \E i \in 1..Len(fbCategoriesSignal) :
        /\ fbCategoriesSignal[i].id = DocId(k)
        /\ \A f \in DtoFields : fbCategoriesSignal[i][f] = dto[f]

\* createCategory(dto) has just returned a Category with document key k
CreateReturned(k, dto) ==
    /\ backend = "remote" /\ lastOp.op = "create" /\ ~lastOp.raised
    /\ lastOp.id = DocId(k) /\ lastOp.dto = dto

\* C15 as claimed: remote store: once createCategory(dto) has returned a Category
\* with id i then, unless the subscription fails or a client deletes document i,
\* the cache eventually holds a record with id i and the dto's name, color,
\* backgroundColor and icon.
C15_CreatedEventuallyCached ==
    \A k \in DocKeys, dto \in fbCreateDtos :
        CreateReturned(k, dto)
            ~> \/ subscription = "failed"
               \/ k \notin DOMAIN LocalView(docs, pending)
               \/ CachedWith(k, dto)

\* C15 as amended: remote store: once createCategory(dto) has returned a Category
\* with id i then, unless the subscription fails or a client deletes document i
\* or changes one of its four fields, the cache eventually holds a record with
\* id i and the dto's name, color, backgroundColor and icon.
C15_CreatedEventuallyCachedUnlessChanged ==
    \A k \in DocKeys, dto \in fbCreateDtos :
        CreateReturned(k, dto)
            ~> \/ subscription = "failed"
               \/ k \notin DOMAIN LocalView(docs, pending)
               \/ \E f \in DtoFields : LocalView(docs, pending)[k][f] # dto[f]
               \/ CachedWith(k, dto)

C15_Witness ==
    /\ backend = "remote" /\ subscription = "open"
    /\ lastOp.op = "create" /\ ~lastOp.raised
    /\ lastOp.id.key \in DOMAIN docs
    /\ \A f \in DtoFields : docs[lastOp.id.key][f] = lastOp.dto[f]
    /\ fbCategoriesSignal = <<>>

\* C16: remote store: updateCategory and deleteCategory decide existence by the
\* cache at call time: an id the cache lacks gives null or false and no remote
\* write, also when the collection holds that document; an id the cache holds
\* gets a remote write issued, also when the collection no longer holds it.
\* (The steps of a call are those that queue a write or return without one.)
C16_ExistenceDecidedByCache ==
    [][(backend = "remote"
            /\ \/ lastOp'.op \in {"updateCall", "deleteCall"}
               \/ lastOp'.op \in {"update", "delete"} /\ ~lastOp'.wrote)
        => IF ~HasId(fbCategoriesSignal, lastOp'.id)
           THEN /\ lastOp'.op \in {"update", "delete"}
                /\ lastOp'.op = "update" => lastOp'.returned = Null
                /\ lastOp'.op = "delete" => lastOp'.returned = [ok |-> FALSE]
                /\ pending' = pending
                /\ docs' = docs
           ELSE /\ lastOp'.op \in {"updateCall", "deleteCall"}
                /\ lastOp'.wrote
                /\ Len(pending') = Len(pending) + 1
                /\ SubSeq(pending', 1, Len(pending)) = pending
                /\ pending'[Len(pending')].id = lastOp'.id]_vars

C16_Witness ==
    /\ backend = "remote"
    /\ lastOp.op = "update" /\ lastOp.returned = Null /\ ~lastOp.wrote
    /\ lastOp.id.key \in DOMAIN docs
    /\ ~HasId(fbCategoriesSignal, lastOp.id)

\* C17: remote store: the step in which the subscription reports a failure
\* leaves the cache empty, and from then on the subscription stays failed and
\* the cache stays empty whatever remote changes and calls follow.
C17_FailedSubscriptionStaysEmpty ==
    [][backend = "remote"
        => /\ subscription' = "failed" => fbCategoriesSignal' = <<>>
           /\ subscription = "failed" => subscription' = "failed"]_vars

C17_Witness ==
    /\ backend = "remote" /\ subscription = "failed"
    /\ fbCategoriesSignal = <<>>
    /\ lastOp.op = "create" /\ ~lastOp.raised
    /\ Cardinality(DOMAIN docs) = 2

\* C18: local store: a mutation whose storage write succeeds leaves under
\* STORAGE_KEY the serialization of exactly the in-memory collection, and no later
\* operation of that store, a mutation whose write fails included, makes the two
\* differ.
C18_StorageMirrorsMemory ==
    [][(backend = "local" /\ lastOp'.op # "construct")
        => /\ (lastOp'.wrote /\ ~lastOp'.writeFailed)
                 => storage' = JSONstringify(categoriesSignal')
           /\ storage = JSONstringify(categoriesSignal)
                 => storage' = JSONstringify(categoriesSignal')]_vars

C18_Witness ==
    /\ backend = "local" /\ lastOp.op = "delete" /\ lastOp.writeFailed
    /\ Len(categoriesSignal) = 2
    /\ storage = JSONstringify(categoriesSignal)

\* C19: local store: when the storage holds what a successful write of the
\* current collection left, a fresh instance constructed over it holds the same
\* records in the same order, each with the same id, name, color,
\* backgroundColor, icon, createdAt and updatedAt.
C19_ReloadRoundTrip ==
    [][(backend = "local" /\ lastOp'.op = "construct"
            /\ storage = JSONstringify(categoriesSignal))
        => categoriesSignal' = categoriesSignal]_vars

\* C20: local store: the Category createCategory returns has createdAt equal to
\* updatedAt.
C20_CreatedEqualsUpdated ==
    (backend = "local" /\ lastOp.op = "create")
    => lastOp.returned.createdAt = lastOp.returned.updatedAt

====
